---------------------------- MODULE Spec2Model ----------------------------
(***************************************************************************)
(* Model of src/risk_scoring_agent.py: RiskScoringAgent (assess_risk, the  *)
(* health monitor thread, start/stop, the readers) and RiskScoringSystem   *)
(* (the registry and its aggregates).                                      *)
(*                                                                         *)
(* Floats are fixed-point integers in units of 1/Scale (floor rounding).   *)
(* datetime.now() / time.time() read the logical clock `now` (seconds).    *)
(* Every statement that runs outside the agent's lock is a step of its own *)
(* so that other threads interleave with it; a `with self._lock:` block is *)
(* an acquire step followed by a body step that releases.                  *)
(***************************************************************************)
EXTENDS Integers, Sequences, FiniteSets, TLC

\* ------------------------------------------------------------- bounds
NumCallers == 2        \* threads calling assess_risk
MaxCalls == 2          \* assess_risk calls started in one run
MaxSysCalls == 1       \* the same, in the specification of the whole system
MaxMonitors == 2       \* health threads ever spawned (one per start())
MaxObjs == 2           \* RiskScoringAgent objects ever constructed
MaxNow == 2            \* the clock stops advancing once it has reached this
MaxHist == 101         \* longest history of the history-reader specification
MaxLimit == 3          \* largest explicit limit handed to get_assessment_history
Scale == 1000          \* fixed-point unit: 1.0 is Scale

\* ------------------------------------------------- program constants
None == -1             \* self.start_time = None
ScoreMargin == 2       \* scores tried on each side of a threshold
DefaultLimit == 100    \* get_assessment_history(self, limit: int = 100)

Callers == 1 .. NumCallers
Monitors == 1 .. MaxMonitors
Objs == 1 .. MaxObjs
AgentIds == {"risk_agent_1", "risk_agent_2"}
TickSteps == {1, 60}   \* seconds the clock may advance in one step

\* Thread identities, as lock holders.
Free == <<"free", 0>>
CallerThread(t) == <<"caller", t>>
MonitorThread(m) == <<"monitor", m>>
ReaderThread == <<"reader", 0>>
SystemReaderThread == <<"reader", 1>>

Min(a, b) == IF a < b THEN a ELSE b
Max(a, b) == IF a > b THEN a ELSE b

\* ------------------------------------------------------------- inputs
\* entity_data dictionaries. numeric = FALSE stands for a dictionary with a
\* non-numeric credit_score, on which 750 - credit_score raises TypeError.
\* market_volatility and compliance_score are given in thousandths.
Corp001 ==
    [entity_id |-> "CORP_001", financial_exposure |-> 2500000,
     credit_score |-> 720, market_volatility |-> 150,
     compliance_score |-> 950, operational_incidents |-> 1, numeric |-> TRUE]
Corp003 ==
    [entity_id |-> "CORP_003", financial_exposure |-> 5000000,
     credit_score |-> 590, market_volatility |-> 450,
     compliance_score |-> 720, operational_incidents |-> 7, numeric |-> TRUE]
Malformed ==
    [entity_id |-> "BAD_001", financial_exposure |-> 10000,
     credit_score |-> 0, market_volatility |-> 200,
     compliance_score |-> 900, operational_incidents |-> 0, numeric |-> FALSE]
Inputs == {Corp001, Malformed}

VARIABLES
    now,          \* the clock
    agents,       \* RiskScoringSystem.agents: sequence of [id, obj], insertion order
    nobj,         \* number of RiskScoringAgent objects constructed so far
    is_running,   \* [Objs -> BOOLEAN]
    hm,           \* [Objs -> AgentHealthMetrics record]
    history,      \* [Objs -> Seq(RiskAssessment)]: assessment_history
    start_time,   \* [Objs -> time or None]
    lock,         \* [Objs -> thread holding self._lock, or Free]
    call,         \* [Callers -> frame of the assess_risk call of that thread]
    results,      \* [Callers -> what each finished call gave its caller]
    ncalls,       \* assess_risk calls started so far
    mon,          \* [Monitors -> [pc, obj]]: the _monitor_health threads
    ctl,          \* the thread calling start/stop/add_agent: [op, pc, obj, idx]
    gsh,          \* the get_system_health call in progress
    health,       \* the dictionary the last get_system_health returned
    hist,         \* the get_assessment_history call last made and its result
    snap,         \* the get_health_metrics call of the reader thread
    gah,          \* the get_all_agent_health call in progress and its result
    dl            \* the _determine_risk_level call last made: [score, level]

vars == <<now, agents, nobj, is_running, hm, history, start_time, lock, call,
          results, ncalls, mon, ctl, gsh, health, hist, snap, gah, dl>>

\* ----------------------------------------------------- construction
\* AgentHealthMetrics as built by RiskScoringAgent.__init__; agent_id is
\* filled in by Constructed.
InitialMetrics(t) ==
    [agent_id |-> "", status |-> "OFFLINE", uptime |-> 0, response_time |-> 0,
     error_rate |-> 0,
     throughput |-> 0, cpu_usage |-> 0, memory_usage |-> 0,
     last_heartbeat |-> t, active_assessments |-> 0]

\* The record of RiskScoringAgent(agent_id) constructed at time t.
Constructed(id, t) == [InitialMetrics(t) EXCEPT !.agent_id = id]

NoAssessment == [call |-> <<0, 0>>, entity_id |-> "", risk_score |-> 0,
                 risk_level |-> "", confidence |-> 0, timestamp |-> 0]

IdleCall == [pc |-> "idle", obj |-> 0, input |-> Corp001, t0 |-> 0,
             elapsed |-> 0, assessment |-> NoAssessment, exc |-> "none",
             log |-> <<>>]

IdleCtl == [op |-> "idle", pc |-> "idle", obj |-> 0, idx |-> 0]
IdleGsh == [pc |-> "idle", active |-> 0, avg |-> 0, total |-> 0]
NoHealth == [valid |-> FALSE, total_assessments |-> 0, average_response_time |-> 0,
             active_agents |-> 0, total_agents |-> 0]
NoHist == [valid |-> FALSE, obj |-> 0, explicit |-> FALSE, limit |-> 0,
           len |-> 0, out |-> <<>>]

IdleSnap == [pc |-> "idle", obj |-> 0, valid |-> FALSE, out |-> InitialMetrics(0),
             from |-> 0, seen |-> InitialMetrics(0), again |-> FALSE]
IdleGah == [pc |-> "idle", idx |-> 0, obj |-> 0, size |-> 0, out |-> <<>>,
            exc |-> "none", valid |-> FALSE]
NoLevel == [valid |-> FALSE, score |-> 0, level |-> ""]

\* The agent objects the registry holds, and the ids it holds them under.
RegisteredObjs == {agents[i].obj : i \in 1 .. Len(agents)}
RegisteredIds == {agents[i].id : i \in 1 .. Len(agents)}
AgentOf(id) == (CHOOSE i \in 1 .. Len(agents) : agents[i].id = id)


\* ------------------------------------------------------- risk model
\* _calculate_risk_factors, on numeric input (exposure / 1000000 is taken in
\* two divisions by 1000 to stay within TLC's 32-bit integers).
CalculateRiskFactors(d) ==
    [financial_exposure |->
         Min(((d.financial_exposure \div 1000) * Scale) \div 1000, Scale),
     credit_history |-> Max(0, ((750 - d.credit_score) * Scale) \div 300),
     market_volatility |-> Min((d.market_volatility * Scale) \div 1000, Scale),
     regulatory_compliance |-> Scale - ((d.compliance_score * Scale) \div 1000),
     operational_risk |-> Min((d.operational_incidents * Scale) \div 10, Scale)]

\* sum(factors[factor] * weight ...) over self.risk_weights (weights in percent).
RiskScore(f) ==
    (30 * f.financial_exposure + 25 * f.credit_history + 20 * f.market_volatility
     + 15 * f.regulatory_compliance + 10 * f.operational_risk) \div 100

\* A variant of _determine_risk_level with inclusive upper boundaries.
DetermineRiskLevelUpTo(score) ==
    IF 4 * score <= Scale THEN "LOW"
    ELSE IF 2 * score <= Scale THEN "MEDIUM"
    ELSE IF 4 * score <= 3 * Scale THEN "HIGH"
    ELSE "CRITICAL"

\* _determine_risk_level.
DetermineRiskLevel(score) ==
    IF 4 * score < Scale THEN "LOW"
    ELSE IF 2 * score < Scale THEN "MEDIUM"
    ELSE IF 4 * score < 3 * Scale THEN "HIGH"
    ELSE "CRITICAL"

\* _calculate_confidence: the inputs of this model carry all five required fields.
CalculateConfidence(d) == (5 * Scale) \div 5

\* The RiskAssessment assess_risk builds (lines 117-124). `call` names the
\* call that built it (thread, number of the call in that thread): it is not a
\* field of the program's record, it tells the entries of the history apart.
MakeAssessment(t, k, d, time) ==
    [call |-> <<t, k>>, entity_id |-> d.entity_id,
     risk_score |-> RiskScore(CalculateRiskFactors(d)),
     risk_level |-> DetermineRiskLevel(RiskScore(CalculateRiskFactors(d))),
     confidence |-> CalculateConfidence(d), timestamp |-> time]

\* ------------------------------------------------- metrics arithmetic
\* response_time * 0.9 + response_time_of_call * 0.1
SmoothResponseTime(rt, elapsed) == (rt * 9 + elapsed * Scale) \div 10

\* error_rate * 0.9 + 0.1 on failure, error_rate * 0.95 on success
NextErrorRate(er, success) ==
    IF success THEN (er * 95) \div 100 ELSE (er * 9 + Scale) \div 10

\* len(self.assessment_history) / max(1, seconds since start)
Throughput(n, since) == (n * Scale) \div Max(1, since)

\* A variant of lines 225-231 that tests the WARNING condition first.
DeriveStatusWarningFirst(m) ==
    IF m.response_time > 5 * Scale \/ m.cpu_usage > 90 THEN "WARNING"
    ELSE IF 10 * m.error_rate > Scale THEN "CRITICAL"
    ELSE "HEALTHY"

\* The status the monitor derives (lines 225-231).
DeriveStatus(m) ==
    IF 10 * m.error_rate > Scale THEN "CRITICAL"
    ELSE IF m.response_time > 5 * Scale \/ m.cpu_usage > 90 THEN "WARNING"
    ELSE "HEALTHY"


\* ---------------------------------------------------------- assess_risk
\* One call of assess_risk by caller thread t. The frame call[t] holds the
\* position (pc), the agent, entity_data, start_time (t0), the response time
\* handed to _update_performance_metrics (elapsed), the assessment built, the
\* exception in flight (exc) and the bookkeeping steps done so far (log).
CallNo(t) == Len(results[t]) + 1
Release(o) == [lock EXCEPT ![o] = Free]
Logged(t, e) == Append(call[t].log, e)

\* line 98: start_time = time.time(); the call is made on a registered agent.
AssessBegin(t, o, d) ==
    /\ call[t].pc = "idle"
    /\ o \in RegisteredObjs
    /\ call' = [call EXCEPT ![t] = [IdleCall EXCEPT !.pc = "enter", !.obj = o,
                                                    !.input = d, !.t0 = now]]
    /\ ncalls' = ncalls + 1
    /\ UNCHANGED <<now, agents, nobj, is_running, hm, history, start_time, lock,
                   results, mon, ctl, gsh, health, hist,
                   snap, gah, dl>>

\* line 101: with self._lock (entry increment)
AcquireInc(t) ==
    /\ call[t].pc = "enter"
    /\ lock[call[t].obj] = Free
    /\ lock' = [lock EXCEPT ![call[t].obj] = CallerThread(t)]
    /\ call' = [call EXCEPT ![t].pc = "inc"]
    /\ UNCHANGED <<now, agents, nobj, is_running, hm, history, start_time,
                   results, ncalls, mon, ctl, gsh, health, hist,
                   snap, gah, dl>>

\* line 102: self.health_metrics.active_assessments += 1, and the lock's release
IncActive(t) ==
    LET o == call[t].obj IN
    /\ call[t].pc = "inc"
    /\ hm' = [hm EXCEPT ![o].active_assessments = @ + 1]
    /\ lock' = Release(o)
    /\ call' = [call EXCEPT ![t].pc = "compute", ![t].log = Logged(t, "inc")]
    /\ UNCHANGED <<now, agents, nobj, is_running, history, start_time,
                   results, ncalls, mon, ctl, gsh, health, hist,
                   snap, gah, dl>>

\* lines 105-124: factors, score, level, confidence and the RiskAssessment
\* (timestamp=datetime.now()); on non-numeric input the computation raises
\* and control passes to the except clause, which takes the time (line 136).
Compute(t) ==
    /\ call[t].pc = "compute"
    /\ IF call[t].input.numeric
       THEN call' = [call EXCEPT ![t].pc = "append",
                         ![t].assessment =
                             MakeAssessment(t, CallNo(t), call[t].input, now)]
       ELSE call' = [call EXCEPT ![t].pc = "except", ![t].exc = "ComputationError",
                                 ![t].elapsed = now - call[t].t0]
    /\ UNCHANGED <<now, agents, nobj, is_running, hm, history, start_time, lock,
                   results, ncalls, mon, ctl, gsh, health, hist,
                   snap, gah, dl>>

\* A lossy variant of line 126, as a read-modify-write append would behave:
\* the entry is dropped when another call stands at its own append.
AppendHistoryRacy(t) ==
    LET o == call[t].obj
        raced == \E u \in Callers \ {t} : call[u].pc = "append" /\ call[u].obj = o
    IN
    /\ call[t].pc = "append"
    /\ history' = [history EXCEPT ![o] = IF raced THEN @
                                         ELSE Append(@, call[t].assessment)]
    /\ call' = [call EXCEPT ![t].pc = "update", ![t].elapsed = now - call[t].t0]
    /\ UNCHANGED <<now, agents, nobj, is_running, hm, start_time, lock,
                   results, ncalls, mon, ctl, gsh, health, hist,
                   snap, gah, dl>>

\* line 126: self.assessment_history.append(assessment) (list.append is one
\* atomic operation), and line 129: response_time = time.time() - start_time
AppendHistory(t) ==
    LET o == call[t].obj IN
    /\ call[t].pc = "append"
    /\ history' = [history EXCEPT ![o] = Append(@, call[t].assessment)]
    /\ call' = [call EXCEPT ![t].pc = "update", ![t].elapsed = now - call[t].t0]
    /\ UNCHANGED <<now, agents, nobj, is_running, hm, start_time, lock,
                   results, ncalls, mon, ctl, gsh, health, hist,
                   snap, gah, dl>>

\* A variant in which a stopped agent's calls are held back at the metric
\* update: the lock is granted only while the agent is running.
AcquireUpdateWhileRunning(t) ==
    /\ call[t].pc \in {"update", "except"}
    /\ is_running[call[t].obj]
    /\ lock[call[t].obj] = Free
    /\ lock' = [lock EXCEPT ![call[t].obj] = CallerThread(t)]
    /\ call' = [call EXCEPT ![t].pc = IF call[t].pc = "update"
                                      THEN "update_locked" ELSE "except_locked"]
    /\ UNCHANGED <<now, agents, nobj, is_running, hm, history, start_time,
                   results, ncalls, mon, ctl, gsh, health, hist,
                   snap, gah, dl>>

\* line 190: with self._lock, in _update_performance_metrics called from
\* line 130 (success=True) or from the except clause, line 136 (success=False)
AcquireUpdate(t) ==
    /\ call[t].pc \in {"update", "except"}
    /\ lock[call[t].obj] = Free
    /\ lock' = [lock EXCEPT ![call[t].obj] = CallerThread(t)]
    /\ call' = [call EXCEPT ![t].pc = IF call[t].pc = "update"
                                      THEN "update_locked" ELSE "except_locked"]
    /\ UNCHANGED <<now, agents, nobj, is_running, hm, history, start_time,
                   results, ncalls, mon, ctl, gsh, health, hist,
                   snap, gah, dl>>

\* lines 192-202: response_time and error_rate, written before the throughput
SmoothedMetrics(m, elapsed, success) ==
    [m EXCEPT !.response_time = SmoothResponseTime(m.response_time, elapsed),
              !.error_rate = NextErrorRate(m.error_rate, success)]

\* A variant of lines 190-206 in which the lock is not given back when the
\* guarded statements raise.
UpdateMetricsKeepLockOnRaise(t) ==
    LET o == call[t].obj
        success == call[t].pc = "update_locked"
        m == SmoothedMetrics(hm[o], call[t].elapsed, success)
        tag == IF success THEN "update_ok" ELSE "update_fail"
    IN
    /\ call[t].pc \in {"update_locked", "except_locked"}
    /\ lock' = IF start_time[o] = None THEN lock ELSE Release(o)
    /\ IF start_time[o] = None
       THEN /\ hm' = [hm EXCEPT ![o] = m]
            /\ call' = [call EXCEPT
                   ![t].pc = IF success THEN "except" ELSE "finally",
                   ![t].exc = "TypeError",
                   ![t].elapsed = now - call[t].t0,
                   ![t].log = Logged(t, IF success THEN "update_ok_raised"
                                                   ELSE "update_fail_raised")]
       ELSE /\ hm' = [hm EXCEPT ![o] =
                        [m EXCEPT !.throughput =
                            Throughput(Len(history[o]), now - start_time[o])]]
            /\ call' = [call EXCEPT ![t].pc = "finally", ![t].log = Logged(t, tag)]
    /\ UNCHANGED <<now, agents, nobj, is_running, history, start_time,
                   results, ncalls, mon, ctl, gsh, health, hist,
                   snap, gah, dl>>

\* lines 191-206, the body of _update_performance_metrics under the lock.
\* datetime.now() - self.start_time raises TypeError while start_time is
\* None (start() never called): response_time and error_rate are written
\* by then, throughput is not, and the with statement releases the lock.
\* Raised from line 130 the error enters the except clause (line 135);
\* raised from line 136 it replaces the error being handled and leaves
\* through the finally clause.
UpdateMetrics(t) ==
    LET o == call[t].obj
        success == call[t].pc = "update_locked"
        m == SmoothedMetrics(hm[o], call[t].elapsed, success)
        tag == IF success THEN "update_ok" ELSE "update_fail"
    IN
    /\ call[t].pc \in {"update_locked", "except_locked"}
    /\ lock' = Release(o)
    /\ IF start_time[o] = None
       THEN /\ hm' = [hm EXCEPT ![o] = m]
            /\ call' = [call EXCEPT
                   ![t].pc = IF success THEN "except" ELSE "finally",
                   ![t].exc = "TypeError",
                   ![t].elapsed = now - call[t].t0,
                   ![t].log = Logged(t, IF success THEN "update_ok_raised"
                                                   ELSE "update_fail_raised")]
       ELSE /\ hm' = [hm EXCEPT ![o] =
                        [m EXCEPT !.throughput =
                            Throughput(Len(history[o]), now - start_time[o])]]
            /\ call' = [call EXCEPT ![t].pc = "finally", ![t].log = Logged(t, tag)]
    /\ UNCHANGED <<now, agents, nobj, is_running, history, start_time,
                   results, ncalls, mon, ctl, gsh, health, hist,
                   snap, gah, dl>>

\* line 140: with self._lock, in the finally clause
AcquireDec(t) ==
    /\ call[t].pc = "finally"
    /\ lock[call[t].obj] = Free
    /\ lock' = [lock EXCEPT ![call[t].obj] = CallerThread(t)]
    /\ call' = [call EXCEPT ![t].pc = "dec"]
    /\ UNCHANGED <<now, agents, nobj, is_running, hm, history, start_time,
                   results, ncalls, mon, ctl, gsh, health, hist,
                   snap, gah, dl>>

\* What the caller of a finished call holds: the assessment returned (line
\* 133) or the exception raised (line 138, or the one line 136 raised), with
\* the bookkeeping steps the call performed, in their order.
Outcome(t) ==
    [obj |-> call[t].obj, numeric |-> call[t].input.numeric,
     outcome |-> IF call[t].exc = "none" THEN "returned" ELSE "raised",
     exc |-> call[t].exc,
     log |-> Logged(t, "dec")]

\* A variant of line 141 without the finally clause: the decrement is made
\* only by a call that returns an assessment.
DecActiveOnSuccessOnly(t) ==
    LET o == call[t].obj IN
    /\ call[t].pc = "dec"
    /\ hm' = [hm EXCEPT ![o].active_assessments =
                            IF call[t].exc = "none" THEN @ - 1 ELSE @]
    /\ lock' = Release(o)
    /\ results' = [results EXCEPT ![t] = Append(@, Outcome(t))]
    /\ call' = [call EXCEPT ![t] = IdleCall]
    /\ UNCHANGED <<now, agents, nobj, is_running, history, start_time,
                   ncalls, mon, ctl, gsh, health, hist,
                   snap, gah, dl>>

\* line 141: self.health_metrics.active_assessments -= 1, the lock's release,
\* and the call's end: the caller gets the assessment or the exception.
DecActive(t) ==
    LET o == call[t].obj IN
    /\ call[t].pc = "dec"
    /\ hm' = [hm EXCEPT ![o].active_assessments = @ - 1]
    /\ lock' = Release(o)
    /\ results' = [results EXCEPT ![t] = Append(@, Outcome(t))]
    /\ call' = [call EXCEPT ![t] = IdleCall]
    /\ UNCHANGED <<now, agents, nobj, is_running, history, start_time,
                   ncalls, mon, ctl, gsh, health, hist,
                   snap, gah, dl>>

\* The steps of a call in progress.
AssessStep(t) ==
    \/ AcquireInc(t)
    \/ IncActive(t)
    \/ Compute(t)
    \/ AppendHistory(t)
    \/ AcquireUpdate(t)
    \/ UpdateMetrics(t)
    \/ AcquireDec(t)
    \/ DecActive(t)


\* ------------------------------------------------------ _monitor_health
\* line 210: while self.is_running
MonitorCheck(m) ==
    /\ mon[m].pc = "check"
    /\ mon' = [mon EXCEPT ![m].pc = IF is_running[mon[m].obj] THEN "tick"
                                                                ELSE "exited"]
    /\ UNCHANGED <<now, agents, nobj, is_running, hm, history, start_time, lock,
                   call, results, ncalls, ctl, gsh, health, hist,
                   snap, gah, dl>>

\* line 212: with self._lock
MonitorAcquire(m) ==
    /\ mon[m].pc = "tick"
    /\ lock[mon[m].obj] = Free
    /\ lock' = [lock EXCEPT ![mon[m].obj] = MonitorThread(m)]
    /\ mon' = [mon EXCEPT ![m].pc = "locked"]
    /\ UNCHANGED <<now, agents, nobj, is_running, hm, history, start_time,
                   call, results, ncalls, ctl, gsh, health, hist,
                   snap, gah, dl>>

\* lines 213-222: uptime (only when start_time is set), the two synthetic
\* gauges and the heartbeat
Sampled(m, o, cpu, mem) ==
    [m EXCEPT !.uptime = IF start_time[o] # None THEN now - start_time[o] ELSE @,
              !.cpu_usage = cpu, !.memory_usage = mem, !.last_heartbeat = now]

\* A variant of the tick that also clears the error rate.
MonitorTickForgiving(m, cpu, mem) ==
    LET o == mon[m].obj
        r == [Sampled(hm[o], o, cpu, mem) EXCEPT !.error_rate = 0]
    IN
    /\ mon[m].pc = "locked"
    /\ hm' = [hm EXCEPT ![o] = [r EXCEPT !.status = DeriveStatus(r)]]
    /\ lock' = Release(o)
    /\ mon' = [mon EXCEPT ![m].pc = "sleep"]
    /\ UNCHANGED <<now, agents, nobj, is_running, history, start_time,
                   call, results, ncalls, ctl, gsh, health, hist,
                   snap, gah, dl>>

\* lines 213-231, the tick under the lock: the samples, then the status
\* derived from the record, and the lock's release.
MonitorTick(m, cpu, mem) ==
    LET o == mon[m].obj
        r == Sampled(hm[o], o, cpu, mem)
    IN
    /\ mon[m].pc = "locked"
    /\ hm' = [hm EXCEPT ![o] = [r EXCEPT !.status = DeriveStatus(r)]]
    /\ lock' = Release(o)
    /\ mon' = [mon EXCEPT ![m].pc = "sleep"]
    /\ UNCHANGED <<now, agents, nobj, is_running, history, start_time,
                   call, results, ncalls, ctl, gsh, health, hist,
                   snap, gah, dl>>

\* line 233: time.sleep(5), then back to the loop's test
MonitorSleep(m) ==
    /\ mon[m].pc = "sleep"
    /\ mon' = [mon EXCEPT ![m].pc = "check"]
    /\ UNCHANGED <<now, agents, nobj, is_running, hm, history, start_time, lock,
                   call, results, ncalls, ctl, gsh, health, hist,
                   snap, gah, dl>>

\* random.uniform(10, 80) and random.uniform(30, 90): one draw of each
\* range. Nothing but the test cpu_usage > 90 of line 228 reads a gauge,
\* and no draw from [10, 80] passes it.
CpuSamples == {45}
MemSamples == {60}

MonitorHealth(m) ==
    \/ MonitorCheck(m)
    \/ MonitorAcquire(m)
    \/ \E cpu \in CpuSamples, mem \in MemSamples : MonitorTick(m, cpu, mem)
    \/ MonitorSleep(m)

\* A variant of lines 211-237 without the try statement: a fault raised in
\* the tick leaves _monitor_health and ends the thread.
MonitorFaultUncaught(m, late) ==
    LET o == mon[m].obj IN
    /\ mon[m].pc = "locked"
    /\ \E cpu \in CpuSamples, mem \in MemSamples :
           hm' = [hm EXCEPT ![o] = IF late THEN Sampled(@, o, cpu, mem) ELSE @]
    /\ lock' = Release(o)
    /\ mon' = [mon EXCEPT ![m].pc = "exited"]
    /\ UNCHANGED <<now, agents, nobj, is_running, history, start_time,
                   call, results, ncalls, ctl, gsh, health, hist,
                   snap, gah, dl>>

\* lines 211-236: a statement of the tick raises. The fault comes before
\* the first write of the block, or late, at the status tests of lines
\* 225-231 with the samples written; the with statement releases the lock
\* and the except clause of line 235 logs the error.
MonitorFault(m, late) ==
    LET o == mon[m].obj IN
    /\ mon[m].pc = "locked"
    /\ \E cpu \in CpuSamples, mem \in MemSamples :
           hm' = [hm EXCEPT ![o] = IF late THEN Sampled(@, o, cpu, mem) ELSE @]
    /\ lock' = Release(o)
    /\ mon' = [mon EXCEPT ![m].pc = "backoff"]
    /\ UNCHANGED <<now, agents, nobj, is_running, history, start_time,
                   call, results, ncalls, ctl, gsh, health, hist,
                   snap, gah, dl>>

\* line 237: time.sleep(1), then back to the loop's test
MonitorBackoff(m) ==
    /\ mon[m].pc = "backoff"
    /\ mon' = [mon EXCEPT ![m].pc = "check"]
    /\ UNCHANGED <<now, agents, nobj, is_running, hm, history, start_time, lock,
                   call, results, ncalls, ctl, gsh, health, hist,
                   snap, gah, dl>>

\* The steps of a monitor thread whose ticks may raise.
MonitorHealthFaulty(m) ==
    \/ MonitorHealth(m)
    \/ \E late \in BOOLEAN : MonitorFault(m, late)
    \/ MonitorBackoff(m)

\* ------------------------------------------------------- start and stop
\* The threads not yet spawned; start() takes the first.
Unborn == {m \in Monitors : mon[m].pc = "unborn"}
NextMonitor == CHOOSE m \in Unborn : \A n \in Unborn : m <= n

\* The control thread's frame on entering agent.start() / agent.stop() for
\* the idx-th agent of the loop of start_all_agents / stop_all_agents
\* (idx = 0: the agent's method is called directly).
Entering(op, pc, o, idx) == [op |-> op, pc |-> pc, obj |-> o, idx |-> idx]

\* A variant of the loops of lines 268 and 274 that ends after one agent.
AfterAgentFirstOnly(first) == IdleCtl

\* What follows the end of one agent's start() or stop(): the next agent of
\* the loop (for agent in self.agents.values()), or the operation's end.
AfterAgent(first) ==
    IF ctl.op \in {"start_all", "stop_all"} /\ ctl.idx < Len(agents)
    THEN Entering(ctl.op, first, agents[ctl.idx + 1].obj, ctl.idx + 1)
    ELSE IdleCtl

\* line 81: self.is_running = True, the first statement of agent.start();
\* frame is the control thread's frame once it has run.
SetRunning(o, frame) ==
    /\ is_running' = [is_running EXCEPT ![o] = TRUE]
    /\ ctl' = frame
    /\ UNCHANGED <<now, agents, nobj, hm, history, start_time, lock,
                   call, results, ncalls, mon, gsh, health, hist,
                   snap, gah, dl>>

\* agent.start() is called on a registered agent
StartAgent(o) ==
    /\ ctl.op = "idle"
    /\ o \in RegisteredObjs
    /\ Unborn # {}
    /\ SetRunning(o, Entering("start", "set_start_time", o, 0))

\* start_all_agents is called (line 267) and enters start() of the first agent
StartAllAgents ==
    /\ ctl.op = "idle"
    /\ Len(agents) > 0
    /\ Cardinality(Unborn) >= Len(agents)
    /\ SetRunning(agents[1].obj,
                  Entering("start_all", "set_start_time", agents[1].obj, 1))

\* the loop of start_all_agents enters start() of its next agent
StartNextAgent ==
    /\ ctl.pc = "set_running"
    /\ SetRunning(ctl.obj, [ctl EXCEPT !.pc = "set_start_time"])

\* A variant of line 82 in which start() begins a fresh history.
StartSetTimeFresh ==
    /\ ctl.pc = "set_start_time"
    /\ start_time' = [start_time EXCEPT ![ctl.obj] = now]
    /\ history' = [history EXCEPT ![ctl.obj] = <<>>]
    /\ ctl' = [ctl EXCEPT !.pc = "set_healthy"]
    /\ UNCHANGED <<now, agents, nobj, is_running, hm, lock,
                   call, results, ncalls, mon, gsh, health, hist,
                   snap, gah, dl>>

\* line 82: self.start_time = datetime.now()
StartSetTime ==
    /\ ctl.pc = "set_start_time"
    /\ start_time' = [start_time EXCEPT ![ctl.obj] = now]
    /\ ctl' = [ctl EXCEPT !.pc = "set_healthy"]
    /\ UNCHANGED <<now, agents, nobj, is_running, hm, history, lock,
                   call, results, ncalls, mon, gsh, health, hist,
                   snap, gah, dl>>

\* line 83: self.health_metrics.status = AgentStatus.HEALTHY (no lock taken)
StartSetStatus ==
    /\ ctl.pc = "set_healthy"
    /\ hm' = [hm EXCEPT ![ctl.obj].status = "HEALTHY"]
    /\ ctl' = [ctl EXCEPT !.pc = "spawn"]
    /\ UNCHANGED <<now, agents, nobj, is_running, history, start_time, lock,
                   call, results, ncalls, mon, gsh, health, hist,
                   snap, gah, dl>>

\* lines 87-88: a new daemon thread running _monitor_health; start() returns
StartSpawn ==
    /\ ctl.pc = "spawn"
    /\ mon' = [mon EXCEPT ![NextMonitor] = [pc |-> "check", obj |-> ctl.obj]]
    /\ ctl' = AfterAgent("set_running")
    /\ UNCHANGED <<now, agents, nobj, is_running, hm, history, start_time, lock,
                   call, results, ncalls, gsh, health, hist,
                   snap, gah, dl>>

\* line 92: self.is_running = False, the first statement of agent.stop()
ClearRunning(o, frame) ==
    /\ is_running' = [is_running EXCEPT ![o] = FALSE]
    /\ ctl' = frame
    /\ UNCHANGED <<now, agents, nobj, hm, history, start_time, lock,
                   call, results, ncalls, mon, gsh, health, hist,
                   snap, gah, dl>>

\* agent.stop() is called on a registered agent
StopAgent(o) ==
    /\ ctl.op = "idle"
    /\ o \in RegisteredObjs
    /\ ClearRunning(o, Entering("stop", "set_offline", o, 0))

\* stop_all_agents is called (line 273) and enters stop() of the first agent
StopAllAgents ==
    /\ ctl.op = "idle"
    /\ Len(agents) > 0
    /\ ClearRunning(agents[1].obj,
                    Entering("stop_all", "set_offline", agents[1].obj, 1))

\* the loop of stop_all_agents enters stop() of its next agent
StopNextAgent ==
    /\ ctl.pc = "clear_running"
    /\ ClearRunning(ctl.obj, [ctl EXCEPT !.pc = "set_offline"])

\* line 93: self.health_metrics.status = AgentStatus.OFFLINE (no lock taken);
\* stop() returns
StopSetStatus ==
    /\ ctl.pc = "set_offline"
    /\ hm' = [hm EXCEPT ![ctl.obj].status = "OFFLINE"]
    /\ ctl' = AfterAgent("clear_running")
    /\ UNCHANGED <<now, agents, nobj, is_running, history, start_time, lock,
                   call, results, ncalls, mon, gsh, health, hist,
                   snap, gah, dl>>

\* The statements of start() after the first.
StartStep == StartSetTime \/ StartSetStatus \/ StartSpawn

\* ---------------------------------------------------------------- clock
Tick(d) ==
    /\ now < MaxNow
    /\ now' = now + d
    /\ UNCHANGED <<agents, nobj, is_running, hm, history, start_time, lock,
                   call, results, ncalls, mon, ctl, gsh, health, hist,
                   snap, gah, dl>>

\* --------------------------------------------------- RiskScoringSystem
\* self.agents[agent_id] = agent (line 262): a dict keeps the position of a
\* key it already holds and gives it the new value; a new key goes last.
DictSet(d, id, o) ==
    IF \E i \in 1 .. Len(d) : d[i].id = id
    THEN [i \in 1 .. Len(d) |-> IF d[i].id = id THEN [id |-> id, obj |-> o]
                                                ELSE d[i]]
    ELSE Append(d, [id |-> id, obj |-> o])

\* add_agent (lines 259-263): a new agent object is built (__init__, lines
\* 53-77: every object not yet built holds the constructor's values but for
\* the heartbeat) and stored under agent_id, whether or not the id is
\* registered already.
AddAgent(id) ==
    /\ ctl.op = "idle"
    /\ nobj < MaxObjs
    /\ nobj' = nobj + 1
    /\ agents' = DictSet(agents, id, nobj + 1)
    /\ hm' = [hm EXCEPT ![nobj + 1] = Constructed(id, now)]
    /\ UNCHANGED <<now, is_running, history, start_time, lock, call, results,
                   ncalls, mon, ctl, gsh, health, hist,
                   snap, gah, dl>>

\* The registered agents whose status is not OFFLINE, by position.
ActiveIdx == {i \in 1 .. Len(agents) : hm[agents[i].obj].status # "OFFLINE"}

RECURSIVE SumOver(_, _)
\* sum of f[i] over the finite set S of positions
SumOver(f, S) ==
    IF S = {} THEN 0
    ELSE LET i == CHOOSE j \in S : TRUE IN f[i] + SumOver(f, S \ {i})

\* np.mean of an empty list
NaN == -1

\* np.mean(xs) of the response times at the positions S
Mean(S) ==
    IF S = {} THEN NaN
    ELSE SumOver([i \in 1 .. Len(agents) |-> hm[agents[i].obj].response_time], S)
             \div Cardinality(S)

\* sum(len(agent.assessment_history) for agent in self.agents.values())
TotalAssessments ==
    SumOver([i \in 1 .. Len(agents) |-> Len(history[agents[i].obj])],
            1 .. Len(agents))

\* lines 279-280: active_agents, read from each agent's record (no lock taken)
GshCount ==
    /\ gsh.pc = "idle"
    /\ gsh' = [gsh EXCEPT !.pc = "branch", !.active = Cardinality(ActiveIdx)]
    /\ UNCHANGED <<now, agents, nobj, is_running, hm, history, start_time, lock,
                   call, results, ncalls, mon, ctl, health, hist,
                   snap, gah, dl>>

\* lines 282-285 and 290-291: with active_agents > 0 the mean over the agents
\* that are not OFFLINE now (read again, no lock taken); otherwise both
\* average and total are set to 0.
GshMean ==
    /\ gsh.pc = "branch"
    /\ gsh' = IF gsh.active > 0
              THEN [gsh EXCEPT !.pc = "sum", !.avg = Mean(ActiveIdx)]
              ELSE [gsh EXCEPT !.pc = "return", !.avg = 0, !.total = 0]
    /\ UNCHANGED <<now, agents, nobj, is_running, hm, history, start_time, lock,
                   call, results, ncalls, mon, ctl, health, hist,
                   snap, gah, dl>>

\* lines 287-288: total_assessments, on the active_agents > 0 branch only
GshSum ==
    /\ gsh.pc = "sum"
    /\ gsh' = [gsh EXCEPT !.pc = "return", !.total = TotalAssessments]
    /\ UNCHANGED <<now, agents, nobj, is_running, hm, history, start_time, lock,
                   call, results, ncalls, mon, ctl, health, hist,
                   snap, gah, dl>>

\* lines 293-299: the dictionary returned
GshReturn ==
    /\ gsh.pc = "return"
    /\ health' = [valid |-> TRUE, total_assessments |-> gsh.total,
                  average_response_time |-> gsh.avg,
                  active_agents |-> gsh.active, total_agents |-> Len(agents)]
    /\ gsh' = IdleGsh
    /\ UNCHANGED <<now, agents, nobj, is_running, hm, history, start_time, lock,
                   call, results, ncalls, mon, ctl, hist,
                   snap, gah, dl>>

GetSystemHealth == GshCount \/ GshMean \/ GshSum \/ GshReturn

\* ------------------------------------------------ get_assessment_history
\* xs[start:] of Python, for any integer start
SliceFrom(xs, start) ==
    LET first == IF start < 0 THEN Max(Len(xs) + start, 0)
                              ELSE Min(start, Len(xs))
    IN SubSeq(xs, first + 1, Len(xs))

\* A variant of line 246 that slices from the front: h[:limit]
AssessmentHistoryHead(h, limit) == SubSeq(h, 1, Min(limit, Len(h)))

\* self.assessment_history[-limit:] (line 246)
AssessmentHistory(h, limit) == SliceFrom(h, 0 - limit)

\* get_assessment_history(limit) on agent o; hist keeps the call: whether a
\* limit was passed, the limit in force, the length of the history read and
\* the list returned.
GetHistory(o, explicit, limit) ==
    /\ o \in RegisteredObjs
    /\ hist' = [valid |-> TRUE, obj |-> o, explicit |-> explicit,
                limit |-> limit, len |-> Len(history[o]),
                out |-> AssessmentHistory(history[o], limit)]
    /\ UNCHANGED <<now, agents, nobj, is_running, hm, history, start_time, lock,
                   call, results, ncalls, mon, ctl, gsh, health,
                   snap, gah, dl>>

\* get_assessment_history(limit=n)
GetHistoryLimit(o, n) == GetHistory(o, TRUE, n)

\* get_assessment_history(): limit takes its default (line 244)
GetHistoryDefault(o) == GetHistory(o, FALSE, DefaultLimit)

\* the caller lets go of the list it was given
DropHistory ==
    /\ hist.valid
    /\ hist' = NoHist
    /\ UNCHANGED <<now, agents, nobj, is_running, hm, history, start_time, lock,
                   call, results, ncalls, mon, ctl, gsh, health,
                   snap, gah, dl>>

\* ---------------------------------------------------- get_health_metrics
\* AgentHealthMetrics(**asdict(self.health_metrics)) (line 242): a new
\* record holding a copy of every field
Snapshot(m) == [f \in DOMAIN m |-> m[f]]

\* get_health_metrics is called on a registered agent by the reader thread
HealthBegin(o) ==
    /\ snap.pc = "idle"
    /\ o \in RegisteredObjs
    /\ snap' = [snap EXCEPT !.pc = "enter", !.obj = o]
    /\ UNCHANGED <<now, agents, nobj, is_running, hm, history, start_time, lock,
                   call, results, ncalls, mon, ctl, gsh, health, hist, gah, dl>>

\* line 241: with self._lock
HealthAcquire ==
    /\ snap.pc = "enter"
    /\ lock[snap.obj] = Free
    /\ lock' = [lock EXCEPT ![snap.obj] = ReaderThread]
    /\ snap' = [snap EXCEPT !.pc = "locked"]
    /\ UNCHANGED <<now, agents, nobj, is_running, hm, history, start_time,
                   call, results, ncalls, mon, ctl, gsh, health, hist, gah, dl>>

\* A variant of line 242 that counts the read as an assessment under way.
HealthCopyCounting ==
    /\ snap.pc = "locked"
    /\ snap' = [snap EXCEPT !.pc = "idle", !.valid = TRUE,
                            !.out = Snapshot(hm[snap.obj]),
                            !.from = snap.obj, !.seen = hm[snap.obj],
                            !.again = FALSE]
    /\ hm' = [hm EXCEPT ![snap.obj].active_assessments = @ + 1]
    /\ lock' = Release(snap.obj)
    /\ UNCHANGED <<now, agents, nobj, is_running, history, start_time,
                   call, results, ncalls, mon, ctl, gsh, health, hist, gah, dl>>

\* line 242: the copy is returned and the lock released; snap.out is the
\* record the reader now holds. from and seen tell which agent it was taken
\* from and what that agent's record was, again whether the reader held a
\* snapshot of the same agent taken from the same record.
HealthCopy ==
    /\ snap.pc = "locked"
    /\ snap' = [snap EXCEPT !.pc = "idle", !.valid = TRUE,
                            !.out = Snapshot(hm[snap.obj]),
                            !.from = snap.obj, !.seen = hm[snap.obj],
                            !.again = /\ snap.valid
                                      /\ snap.from = snap.obj
                                      /\ snap.seen = hm[snap.obj]]
    /\ lock' = Release(snap.obj)
    /\ UNCHANGED <<now, agents, nobj, is_running, hm, history, start_time,
                   call, results, ncalls, mon, ctl, gsh, health, hist, gah, dl>>

\* the reader lets go of the record it was given
DropSnapshot ==
    /\ snap.pc = "idle"
    /\ snap.valid
    /\ snap' = IdleSnap
    /\ UNCHANGED <<now, agents, nobj, is_running, hm, history, start_time, lock,
                   call, results, ncalls, mon, ctl, gsh, health, hist, gah, dl>>

GetHealthMetrics == HealthAcquire \/ HealthCopy

\* -------------------------------------------------- get_all_agent_health
\* [agent.get_health_metrics() for agent in self.agents.values()] (line 303)
\* get_all_agent_health is called: the iterator over the dictionary's values
\* is created and remembers the dictionary's size.
GahCall ==
    /\ gah.pc = "idle"
    /\ gah' = [IdleGah EXCEPT !.pc = "next", !.size = Len(agents)]
    /\ UNCHANGED <<now, agents, nobj, is_running, hm, history, start_time, lock,
                   call, results, ncalls, mon, ctl, gsh, health, hist, snap, dl>>

\* The iterator's next value: RuntimeError (dictionary changed size during
\* iteration) when the size differs from the one remembered, the end of the
\* list when the values are exhausted, else the agent at the next position.
GahNext ==
    /\ gah.pc = "next"
    /\ gah' = IF Len(agents) # gah.size
              THEN [IdleGah EXCEPT !.exc = "RuntimeError"]
              ELSE IF gah.idx = gah.size
              THEN [gah EXCEPT !.pc = "idle", !.obj = 0, !.valid = TRUE]
              ELSE [gah EXCEPT !.pc = "enter", !.idx = @ + 1,
                               !.obj = agents[gah.idx + 1].obj]
    /\ UNCHANGED <<now, agents, nobj, is_running, hm, history, start_time, lock,
                   call, results, ncalls, mon, ctl, gsh, health, hist, snap, dl>>

\* line 241, for the agent at hand
GahAcquire ==
    /\ gah.pc = "enter"
    /\ lock[gah.obj] = Free
    /\ lock' = [lock EXCEPT ![gah.obj] = SystemReaderThread]
    /\ gah' = [gah EXCEPT !.pc = "locked"]
    /\ UNCHANGED <<now, agents, nobj, is_running, hm, history, start_time,
                   call, results, ncalls, mon, ctl, gsh, health, hist, snap, dl>>

\* A variant of the list's construction that puts each snapshot first.
GahCopyFront ==
    /\ gah.pc = "locked"
    /\ gah' = [gah EXCEPT !.pc = "next",
                          !.out = <<Snapshot(hm[gah.obj])>> \o @]
    /\ lock' = Release(gah.obj)
    /\ UNCHANGED <<now, agents, nobj, is_running, hm, history, start_time,
                   call, results, ncalls, mon, ctl, gsh, health, hist, snap, dl>>

\* line 242, for the agent at hand: its snapshot goes to the end of the list
GahCopy ==
    /\ gah.pc = "locked"
    /\ gah' = [gah EXCEPT !.pc = "next",
                          !.out = Append(@, Snapshot(hm[gah.obj]))]
    /\ lock' = Release(gah.obj)
    /\ UNCHANGED <<now, agents, nobj, is_running, hm, history, start_time,
                   call, results, ncalls, mon, ctl, gsh, health, hist, snap, dl>>

GetAllAgentHealth == GahCall \/ GahNext \/ GahAcquire \/ GahCopy

\* ------------------------------------------------ _determine_risk_level
\* _determine_risk_level(score) is called; dl keeps the call and its result
DetermineLevel(score) ==
    /\ dl' = [valid |-> TRUE, score |-> score,
              level |-> DetermineRiskLevel(score)]
    /\ UNCHANGED <<now, agents, nobj, is_running, hm, history, start_time, lock,
                   call, results, ncalls, mon, ctl, gsh, health, hist, snap, gah>>

\* ------------------------------------------- one agent and its threads
\* system = RiskScoringSystem(); system.add_agent("risk_agent_1")
TypeInit ==
    /\ now = 0
    /\ is_running = [o \in Objs |-> FALSE]
    /\ history = [o \in Objs |-> <<>>]
    /\ start_time = [o \in Objs |-> None]
    /\ lock = [o \in Objs |-> Free]
    /\ call = [t \in Callers |-> IdleCall]
    /\ results = [t \in Callers |-> <<>>]
    /\ ncalls = 0
    /\ mon = [m \in Monitors |-> [pc |-> "unborn", obj |-> 0]]
    /\ ctl = IdleCtl
    /\ gsh = IdleGsh
    /\ health = NoHealth
    /\ hist = NoHist
    /\ snap = IdleSnap
    /\ gah = IdleGah
    /\ dl = NoLevel

Init ==
    /\ TypeInit
    /\ agents = <<[id |-> "risk_agent_1", obj |-> 1]>>
    /\ nobj = 1
    /\ hm = [o \in Objs |-> IF o = 1 THEN Constructed("risk_agent_1", 0)
                                      ELSE InitialMetrics(0)]

\* The threads of one agent up to its stop: the callers inside assess_risk,
\* the monitor thread, and the owner calling start() once.
LiveThreads ==
    \/ \E t \in Callers : AssessStep(t)
    \/ \E m \in Monitors : MonitorHealth(m)
    \/ \E o \in Objs : start_time[o] = None /\ StartAgent(o)
    \/ StartStep

\* The same, with the owner calling stop() any number of times.
AgentThreads ==
    \/ LiveThreads
    \/ \E o \in Objs : StopAgent(o)
    \/ StopSetStatus

\* The caller threads are interchangeable: a call is made by the idle
\* thread of the lowest number.
InOrder(t) == \A u \in 1 .. t - 1 : call[u].pc # "idle"

\* One agent and NumCallers threads calling assess_risk on it (MaxCalls
\* calls in all), at any time of the agent's life. The clock stands still:
\* every statement reads the same time.
Next ==
    \/ \E t \in Callers, o \in Objs, d \in Inputs :
           ncalls < MaxCalls /\ InOrder(t) /\ AssessBegin(t, o, d)
    \/ AgentThreads

Spec == Init /\ [][Next]_vars

\* The agent up to its stop: calls made before, during and after start().
\* stop() (lines 90-94) writes is_running and status only.
NextLive ==
    \/ \E t \in Callers, o \in Objs, d \in Inputs :
           ncalls < MaxCalls /\ InOrder(t) /\ AssessBegin(t, o, d)
    \/ LiveThreads

SpecLive == Init /\ [][NextLive]_vars

\* The same, with every assess_risk call made on a started agent: start()
\* has set start_time by the time the call is made.
NextStarted ==
    \/ \E t \in Callers, o \in Objs, d \in Inputs :
           /\ ncalls < MaxCalls /\ InOrder(t) /\ start_time[o] # None
           /\ AssessBegin(t, o, d)
    \/ AgentThreads

SpecStarted == Init /\ [][NextStarted]_vars

\* ------------------------------------------------- the whole system
\* system = RiskScoringSystem()
InitSys ==
    /\ TypeInit
    /\ agents = <<>>
    /\ nobj = 0
    /\ hm = [o \in Objs |-> InitialMetrics(0)]

\* The system's owner registering agents and calling start_all_agents and
\* stop_all_agents, a reader thread calling get_system_health, and one
\* thread calling assess_risk on registered agents (MaxSysCalls calls). The
\* monitor threads are spawned and are not scheduled during the run.
NextSys ==
    \/ \E id \in AgentIds : AddAgent(id)
    \/ StartAllAgents
    \/ StartNextAgent
    \/ StartStep
    \/ StopAllAgents
    \/ StopNextAgent
    \/ StopSetStatus
    \/ GetSystemHealth
    \/ \E o \in Objs : ncalls < MaxSysCalls /\ AssessBegin(1, o, Corp001)
    \/ AssessStep(1)

SpecSys == InitSys /\ [][NextSys]_vars

\* ------------------------------------------------- the registry at work
\* The system's owner registering agents, calling start_all_agents and
\* stop_all_agents and, between these, assess_risk on registered agents
\* (MaxSysCalls calls, each run to its end), and a reader thread calling
\* get_all_agent_health at any time. The monitor threads are spawned and
\* are not scheduled during the run.
OwnerIdle == ctl.op = "idle" /\ call[1].pc = "idle"

NextReg ==
    \/ \E id \in AgentIds : OwnerIdle /\ AddAgent(id)
    \/ OwnerIdle /\ StartAllAgents
    \/ StartNextAgent
    \/ StartStep
    \/ OwnerIdle /\ StopAllAgents
    \/ StopNextAgent
    \/ StopSetStatus
    \/ \E o \in Objs :
           OwnerIdle /\ ncalls < MaxSysCalls /\ AssessBegin(1, o, Corp001)
    \/ AssessStep(1)
    \/ GetAllAgentHealth

SpecReg == InitSys /\ [][NextReg]_vars

\* ------------------------------------------- one client and the history
\* A single client: it starts the agent, then makes up to MaxHist
\* assess_risk calls one after the other, reading the history between calls
\* with limits 0 .. MaxLimit or with none.
NextHist ==
    \/ \E o \in Objs : start_time[o] = None /\ StartAgent(o)
    \/ StartStep
    \/ \E o \in Objs :
           /\ ctl.op = "idle" /\ start_time[o] # None /\ ~hist.valid
           /\ ncalls < MaxHist
           /\ AssessBegin(1, o, Corp001)
    \/ AssessStep(1)
    \/ \E o \in Objs, n \in 0 .. MaxLimit :
           call[1].pc = "idle" /\ ~hist.valid /\ GetHistoryLimit(o, n)
    \/ \E o \in Objs :
           call[1].pc = "idle" /\ ~hist.valid /\ GetHistoryDefault(o)
    \/ DropHistory

SpecHist == Init /\ [][NextHist]_vars

\* ------------------------------------------- the whole life of an agent
\* One agent over its whole life: the owner calling start() and stop() any
\* number of times (every start() spawns a monitor thread, MaxMonitors in
\* all), one thread calling assess_risk (MaxSysCalls calls), and a reader
\* calling get_assessment_history.
NextLife ==
    \/ \E o \in Objs, d \in Inputs :
           ncalls < MaxSysCalls /\ AssessBegin(1, o, d)
    \/ AssessStep(1)
    \/ \E m \in Monitors : MonitorHealth(m)
    \/ \E o \in Objs : StartAgent(o)
    \/ StartStep
    \/ \E o \in Objs : StopAgent(o)
    \/ StopSetStatus
    \/ \E o \in Objs : ~hist.valid /\ GetHistoryDefault(o)
    \/ DropHistory

\* Scheduling: every thread that can take a step again and again takes it
\* (a thread waiting for the lock gets it when it is released often enough);
\* the owner finishes the start() or stop() it has begun. Whether and when a
\* new operation is called is left open.
FairLife ==
    /\ SF_vars(AssessStep(1))
    /\ \A m \in Monitors : SF_vars(MonitorHealth(m))
    /\ WF_vars(StartStep \/ StopSetStatus)

SpecLife == Init /\ [][NextLife]_vars /\ FairLife

\* ------------------------------------------------ an agent and a reader
\* One agent started once and stopped any number of times, its monitor
\* thread, one thread calling assess_risk (MaxSysCalls calls, before, during
\* and after start()), and a reader thread calling get_health_metrics.
NextRead ==
    \/ \E o \in Objs, d \in Inputs :
           ncalls < MaxSysCalls /\ AssessBegin(1, o, d)
    \/ AssessStep(1)
    \/ \E m \in Monitors : MonitorHealth(m)
    \/ \E o \in Objs : start_time[o] = None /\ StartAgent(o)
    \/ StartStep
    \/ \E o \in Objs : StopAgent(o)
    \/ StopSetStatus
    \/ \E o \in Objs : HealthBegin(o)
    \/ GetHealthMetrics
    \/ DropSnapshot

SpecRead == Init /\ [][NextRead]_vars

\* ------------------------------------------- stop() and a call under way
\* One agent started once and stopped any number of times, its monitor
\* thread, and one thread calling assess_risk (MaxSysCalls calls, before,
\* during and after start()), under the scheduling of FairLife.
NextStop ==
    \/ \E o \in Objs, d \in Inputs :
           ncalls < MaxSysCalls /\ AssessBegin(1, o, d)
    \/ AssessStep(1)
    \/ \E m \in Monitors : MonitorHealth(m)
    \/ \E o \in Objs : start_time[o] = None /\ StartAgent(o)
    \/ StartStep
    \/ \E o \in Objs : StopAgent(o)
    \/ StopSetStatus

SpecStop == Init /\ [][NextStop]_vars /\ FairLife

\* ------------------------------------------------ the users of the lock
\* One agent started once and the three kinds of thread that take its lock:
\* one thread calling assess_risk (MaxSysCalls calls, before, during and
\* after start()), the monitor thread, and a reader thread calling
\* get_health_metrics.
NextLock ==
    \/ \E o \in Objs, d \in Inputs :
           ncalls < MaxSysCalls /\ AssessBegin(1, o, d)
    \/ AssessStep(1)
    \/ \E m \in Monitors : MonitorHealth(m)
    \/ \E o \in Objs : start_time[o] = None /\ StartAgent(o)
    \/ StartStep
    \/ \E o \in Objs : HealthBegin(o)
    \/ GetHealthMetrics
    \/ DropSnapshot

\* The scheduling of FairLife, with the reader thread.
FairLock ==
    /\ SF_vars(AssessStep(1))
    /\ \A m \in Monitors : SF_vars(MonitorHealth(m))
    /\ SF_vars(GetHealthMetrics)
    /\ WF_vars(StartStep)

SpecLock == Init /\ [][NextLock]_vars /\ FairLock

\* ------------------------------------------- every operation of an agent
\* One agent and every operation on it: the owner calling start() and
\* stop() any number of times, the monitor threads, one thread calling
\* assess_risk (MaxSysCalls calls), and a reader thread calling
\* get_health_metrics and get_assessment_history, one after the other.
NextOps ==
    \/ \E o \in Objs, d \in Inputs :
           ncalls < MaxSysCalls /\ AssessBegin(1, o, d)
    \/ AssessStep(1)
    \/ \E m \in Monitors : MonitorHealth(m)
    \/ \E o \in Objs : StartAgent(o)
    \/ StartStep
    \/ \E o \in Objs : StopAgent(o)
    \/ StopSetStatus
    \/ \E o \in Objs : ~hist.valid /\ ~snap.valid /\ HealthBegin(o)
    \/ GetHealthMetrics
    \/ DropSnapshot
    \/ \E o \in Objs :
           ~hist.valid /\ ~snap.valid /\ snap.pc = "idle" /\ GetHistoryDefault(o)
    \/ DropHistory

SpecOps == Init /\ [][NextOps]_vars

\* ------------------------------------------------- scores and levels
\* The scores _determine_risk_level is tried on: the scores within
\* ScoreMargin thousandths of 0, of 1 and of each threshold, so below 0 and
\* above 1 as well.
Scores ==
    {b + e : b \in {0, Scale \div 4, Scale \div 2, (3 * Scale) \div 4, Scale},
             e \in (0 - ScoreMargin) .. ScoreMargin}

\* The well-formed sample entities of example_usage.py whose scores lie in
\* different bands.
SampleEntities == {Corp001, Corp003}

\* One agent started once, one thread calling assess_risk on the sample
\* entities (MaxSysCalls calls, before, during and after start()), and
\* _determine_risk_level called on any score of Scores.
NextLevel ==
    \/ \E sc \in Scores : DetermineLevel(sc)
    \/ \E o \in Objs, d \in SampleEntities :
           ncalls < MaxSysCalls /\ AssessBegin(1, o, d)
    \/ AssessStep(1)
    \/ \E o \in Objs : start_time[o] = None /\ StartAgent(o)
    \/ StartStep

SpecLevel == Init /\ [][NextLevel]_vars

\* ------------------------------------------------------ a moving clock
\* One agent started once and NumCallers threads calling assess_risk on it
\* once it is started (MaxCalls calls in all), while the wall clock
\* advances between any two statements.
NextClock ==
    \/ \E t \in Callers, o \in Objs, d \in Inputs :
           /\ ncalls < MaxCalls /\ InOrder(t) /\ start_time[o] # None
           /\ AssessBegin(t, o, d)
    \/ \E t \in Callers : AssessStep(t)
    \/ \E o \in Objs : start_time[o] = None /\ StartAgent(o)
    \/ StartStep
    \/ \E d \in TickSteps : Tick(d)

SpecClock == Init /\ [][NextClock]_vars

\* ------------------------------------------- the monitor and slow calls
\* One agent started once, its monitor thread, and one thread calling
\* assess_risk (MaxCalls calls, one after the other, before, during and
\* after start()), while the wall clock advances between any two
\* statements by a step longer than the 5 seconds of line 227: a call may
\* take a minute.
NextSlow ==
    \/ \E o \in Objs, d \in Inputs :
           ncalls < MaxCalls /\ AssessBegin(1, o, d)
    \/ AssessStep(1)
    \/ \E m \in Monitors : MonitorHealth(m)
    \/ \E o \in Objs : start_time[o] = None /\ StartAgent(o)
    \/ StartStep
    \/ \E d \in TickSteps : d > 5 /\ Tick(d)

SpecSlow == Init /\ [][NextSlow]_vars

\* ------------------------------------------------ faults in the monitor
\* One agent started once and stopped any number of times, one thread
\* calling assess_risk (MaxSysCalls calls), and the monitor thread, any of
\* whose ticks may raise. Scheduling as in FairLife; a tick that is tried
\* again and again does not raise every time.
NextFault ==
    \/ \E o \in Objs, d \in Inputs :
           ncalls < MaxSysCalls /\ AssessBegin(1, o, d)
    \/ AssessStep(1)
    \/ \E m \in Monitors : MonitorHealthFaulty(m)
    \/ \E o \in Objs : start_time[o] = None /\ StartAgent(o)
    \/ StartStep
    \/ \E o \in Objs : StopAgent(o)
    \/ StopSetStatus

FairFault ==
    /\ SF_vars(AssessStep(1))
    /\ \A m \in Monitors : SF_vars(MonitorHealthFaulty(m))
    /\ WF_vars(StartStep \/ StopSetStatus)

SpecFault == Init /\ [][NextFault]_vars /\ FairFault

\* ================================================================ claims
\* The calls that have returned to their callers: <<thread, number>>.
Finished == {c \in Callers \X (1 .. MaxHist) : c[2] <= Len(results[c[1]])}
ResultOf(c) == results[c[1]][c[2]]
Quiescent == \A t \in Callers : call[t].pc = "idle"

\* The positions of the history of agent o that hold the entry of call c.
EntriesOf(o, c) == {i \in 1 .. Len(history[o]) : history[o][i].call = c}
Count(xs, x) == Cardinality({i \in 1 .. Len(xs) : xs[i] = x})

\* The positions of a call between its entry increment and its exit decrement.
InFlight ==
    {"compute", "append", "update", "update_locked", "except", "except_locked",
     "finally", "dec"}

\* C1: once all the assess_risk calls made with well-formed input on a
\* started agent have completed, the agent's history holds exactly one entry
\* per call (as many entries as calls when all calls were well-formed, none
\* lost, none twice) and active_assessments is back to 0.
C1_ConcurrentCallsAllRecorded ==
    Quiescent =>
        \A o \in RegisteredObjs :
            LET calls == {c \in Finished : ResultOf(c).obj = o}
                good == {c \in calls : ResultOf(c).numeric}
            IN /\ hm[o].active_assessments = 0
               /\ \A c \in good : Cardinality(EntriesOf(o, c)) = 1
               /\ good = calls => Len(history[o]) = Cardinality(calls)

\* C1 witness: two threads have each completed a well-formed call on the
\* started agent, and its history holds their two entries.
C1_Witness ==
    /\ Quiescent
    /\ \A t \in Callers : Len(results[t]) >= 1 /\ ResultOf(<<t, 1>>).numeric
    /\ Len(history[1]) >= 2
    /\ history[1][1].call[1] # history[1][2].call[1]
    /\ hm[1].active_assessments = 0

\* C2: active_assessments is never negative and equals the number of calls
\* on the agent that have incremented it and not yet decremented it; every
\* finished call, returned or raised, incremented once and decremented once.
C2_ActiveCountsInFlight ==
    /\ \A o \in Objs :
           /\ hm[o].active_assessments >= 0
           /\ hm[o].active_assessments =
                  Cardinality({t \in Callers :
                                   call[t].obj = o /\ call[t].pc \in InFlight})
    /\ \A c \in Finished :
           Count(ResultOf(c).log, "inc") = 1 /\ Count(ResultOf(c).log, "dec") = 1

\* C2 witness: one call has raised and given the counter back while another
\* call is still between its increment and its decrement.
C2_Witness ==
    /\ \E c \in Finished : ResultOf(c).outcome = "raised"
    /\ \E t \in Callers : call[t].pc \in InFlight
    /\ hm[1].active_assessments = 1

\* C3: when the computation of a call fails, the caller gets that error,
\* after the metrics update with success=false has been carried out and then
\* the decrement, and the history holds no entry of the call.
C3_FailurePropagatesAfterBookkeeping ==
    \A c \in Finished :
        ~ResultOf(c).numeric =>
            /\ ResultOf(c).outcome = "raised"
            /\ ResultOf(c).exc = "ComputationError"
            /\ ResultOf(c).log = <<"inc", "update_fail", "dec">>
            /\ EntriesOf(ResultOf(c).obj, c) = {}

\* C4: once stop() has returned and until start() is called again (the
\* owner is in neither, the running flag is cleared), the status is OFFLINE.
C4_OfflineAfterStop ==
    \A o \in RegisteredObjs :
        (ctl.op = "idle" /\ ~is_running[o]) => hm[o].status = "OFFLINE"

\* C5: every step that writes a field of an agent's metrics record is taken
\* while that agent's lock is held.
C5_MetricsOnlyUnderLock ==
    [][\A o \in Objs : hm'[o] # hm[o] => lock[o] # Free]_vars

\* C6: add_agent with a registered id leaves the registry as it is: every
\* registered id keeps the agent it was first registered with.
C6_DuplicateLeavesRegistry ==
    [][\A i \in 1 .. Len(agents) : agents'[i] = agents[i]]_vars

\* C7: the total_assessments get_system_health computes is the sum of the
\* history lengths of all registered agents at that moment, whatever their
\* status.
C7_TotalIsSumOfHistories ==
    [][(gsh.pc \in {"branch", "sum"} /\ gsh'.pc = "return")
           => gsh'.total = TotalAssessments]_vars

\* C8: get_system_health counts the agents that are not OFFLINE (between 0
\* and the number of agents) and reports the mean response_time over the
\* agents that are not OFFLINE when it takes the mean, or 0 when there are
\* none: the mean is never taken over an empty set.
C8_MeanOverActiveOrZero ==
    [][/\ (gsh.pc = "idle" /\ gsh'.pc = "branch")
            => gsh'.active = Cardinality(ActiveIdx) /\ gsh'.active <= Len(agents)
       /\ (gsh.pc = "branch" /\ gsh'.pc # "branch")
            => gsh'.avg = IF ActiveIdx = {} THEN 0 ELSE Mean(ActiveIdx)]_vars

\* The last n entries of h, in their order.
LastEntries(h, n) == SubSeq(h, Len(h) - n + 1, Len(h))
HistoryRead == SubSeq(history[hist.obj], 1, hist.len)

\* C9: get_assessment_history(limit) with limit >= 0 returns the last
\* min(limit, len) entries of the history in their order; limit = 0 returns
\* the empty sequence.
C9_LastLimitEntries ==
    (hist.valid /\ hist.explicit) =>
        hist.out = LastEntries(HistoryRead, Min(hist.limit, hist.len))

\* C10, as stated: get_assessment_history() without a limit returns the
\* entire history.
C10_DefaultReturnsAll ==
    (hist.valid /\ ~hist.explicit) => hist.out = HistoryRead

\* C10, amended: get_assessment_history() without a limit returns the last
\* min(100, len) entries of the history, the entire history only while it
\* holds at most 100 entries.
C10_DefaultReturnsLastHundred ==
    (hist.valid /\ ~hist.explicit) =>
        /\ hist.out = LastEntries(HistoryRead, Min(100, hist.len))
        /\ (hist.out = HistoryRead) <=> (hist.len <= 100)

\* C10 witness: the default call on a history of 101 entries returned 100.
C10_Witness ==
    hist.valid /\ ~hist.explicit /\ hist.len = 101 /\ Len(hist.out) = 100

\* The bookkeeping logs of the calls made on agent o, finished or under way.
LogsOn(o) ==
    {ResultOf(c).log : c \in {f \in Finished : ResultOf(f).obj = o}}
        \cup {call[t].log : t \in {u \in Callers : call[u].obj = o}}

\* The record of agent o holds the response_time and error_rate of a metric
\* update that did not write the throughput (start_time, once set, stays
\* set: an update that wrote all three fields is later than any that did not).
HalfUpdated(o) ==
    /\ \E l \in LogsOn(o) :
           Count(l, "update_ok_raised") + Count(l, "update_fail_raised") > 0
    /\ \A l \in LogsOn(o) : Count(l, "update_ok") + Count(l, "update_fail") = 0

\* A thread stands inside a monitor tick or a metric update on agent o.
MidWrite(o) ==
    \/ \E t \in Callers :
           call[t].obj = o /\ call[t].pc \in {"update_locked", "except_locked"}
    \/ \E m \in Monitors : mon[m].obj = o /\ mon[m].pc = "locked"

\* C11: the record get_health_metrics copies is never one that a monitor
\* tick or a metric update has written in part: no thread stands inside a
\* tick or an update when the copy is taken, and no update has left
\* response_time written without the throughput.
C11_SnapshotNeverHalfUpdated ==
    [][(snap.pc = "locked" /\ snap'.pc = "idle")
           => ~MidWrite(snap.obj) /\ ~HalfUpdated(snap.obj)]_vars

\* C12: get_health_metrics leaves the agent's record, history and running
\* flag as they are, and a call made while the reader holds a snapshot of
\* the same agent whose record has not changed since returns a snapshot
\* equal to it, field by field.
C12_SnapshotIsPureRead ==
    [][(snap.pc = "locked" /\ snap'.pc = "idle")
           => /\ hm' = hm /\ history' = history /\ is_running' = is_running
              /\ (snap.valid /\ snap.from = snap.obj /\ snap.seen = hm[snap.obj])
                     => \A f \in DOMAIN snap.out : snap'.out[f] = snap.out[f]]_vars

\* C12 witness: the reader has taken a second snapshot of a started agent
\* whose record a monitor tick and a metric update had written, and which
\* nothing changed between the two calls.
C12_Witness ==
    /\ snap.pc = "idle" /\ snap.valid /\ snap.again
    /\ snap.out.cpu_usage > 0
    /\ snap.out.throughput > 0

\* The ids of the registry d, in its order.
IdsOf(d) == [i \in 1 .. Len(d) |-> d[i].id]

\* C13: the list get_all_agent_health returns holds one snapshot per
\* registered id, in the order of the registry, and the registry keeps its
\* ids in the order in which they were first registered: no step moves or
\* removes an id, a new id goes last.
C13_OneSnapshotPerAgentInOrder ==
    [][/\ (~gah.valid /\ gah'.valid)
            => [i \in 1 .. Len(gah'.out) |-> gah'.out[i].agent_id] = IdsOf(agents)
       /\ \A i \in 1 .. Len(agents) :
              i <= Len(agents') /\ agents'[i].id = agents[i].id]_vars

\* C13 witness: two agents registered, the second id of AgentIds first,
\* started and used; the list returned holds their two snapshots in that
\* order.
C13_Witness ==
    /\ gah.valid
    /\ Len(gah.out) = 2
    /\ gah.out[1].agent_id = "risk_agent_2"
    /\ gah.out[2].agent_id = "risk_agent_1"
    /\ \E i \in 1 .. 2 : gah.out[i].status = "HEALTHY"
    /\ \E o \in Objs : Len(history[o]) > 0

\* The monitor thread start() launched for agent o exists.
Launched(o) == \E m \in Monitors : mon[m].obj = o /\ mon[m].pc # "unborn"

\* C14: when start_all_agents returns, every registered agent, whatever its
\* place in the registry, has its running flag set, a start instant and a
\* monitor thread launched; when stop_all_agents returns, every registered
\* agent has its running flag cleared.
C14_AllAgentsReached ==
    [][/\ (ctl.op = "start_all" /\ ctl'.op = "idle")
            => \A o \in RegisteredObjs :
                   is_running'[o] /\ start_time'[o] # None /\ Launched(o)'
       /\ (ctl.op = "stop_all" /\ ctl'.op = "idle")
            => \A o \in RegisteredObjs : ~is_running'[o]]_vars

\* C14 witness: two agents, registered in the reverse order of their ids,
\* have been started by start_all_agents and stopped by stop_all_agents.
C14_Witness ==
    /\ ctl.op = "idle"
    /\ Len(agents) = 2
    /\ agents[1].id = "risk_agent_2"
    /\ \A o \in RegisteredObjs :
           /\ ~is_running[o] /\ start_time[o] # None /\ Launched(o)
           /\ hm[o].status = "OFFLINE"

\* The monitor thread m has been launched and has not ended.
Alive(m) == mon[m].pc \notin {"unborn", "exited"}

\* C15: every monitor thread ends once stop() has been called on its agent
\* after the thread's launch (start() sets the running flag before it
\* launches the thread, so the flag of a live thread's agent is clear only
\* after such a stop()), whatever the owner does next.
C15_MonitorEndsAfterStop ==
    \A m \in Monitors :
        (Alive(m) /\ ~is_running[mon[m].obj]) ~> (mon[m].pc = "exited")

\* A call of thread t, made with well-formed input on an agent that has
\* been started, is under way on a stopped agent: it has incremented
\* active_assessments and has not yet updated the metrics.
UnderWayWhenStopped(t) ==
    /\ call[t].pc \in {"compute", "append", "update", "update_locked"}
    /\ call[t].input.numeric
    /\ start_time[call[t].obj] # None
    /\ ~is_running[call[t].obj]

\* Thread t is back from a call that returned its assessment after the
\* entry increment, the metric update and the exit decrement, and the
\* assessment is in the history.
Completed(t) ==
    /\ call[t].pc = "idle"
    /\ Len(results[t]) >= 1
    /\ LET k == Len(results[t])
           r == results[t][k]
       IN /\ r.outcome = "returned"
          /\ r.log = <<"inc", "update_ok", "dec">>
          /\ EntriesOf(r.obj, <<t, k>>) # {}

\* C16: a call under way when the agent is stopped is not aborted: under
\* fair scheduling it appends its assessment, updates the metrics,
\* decrements active_assessments and returns (thread 1 is the caller).
C16_StopDoesNotAbortCalls == UnderWayWhenStopped(1) ~> Completed(1)

\* C16 witness: stop() has returned on the started agent while a call stands
\* between its increment and its append.
C16_Witness ==
    /\ ctl.op = "idle"
    /\ UnderWayWhenStopped(1)
    /\ call[1].pc = "append"
    /\ hm[1].active_assessments = 1

\* Whoever holds an agent's lock stands inside the with block it took the
\* lock for: it is not asleep, not waiting for a lock, and not finished.
LockDiscipline ==
    \A o \in Objs :
        /\ \A t \in Callers :
               lock[o] = CallerThread(t)
                   => /\ call[t].obj = o
                      /\ call[t].pc \in {"inc", "update_locked", "except_locked", "dec"}
        /\ \A m \in Monitors :
               lock[o] = MonitorThread(m) => mon[m].obj = o /\ mon[m].pc = "locked"
        /\ lock[o] = ReaderThread => snap.obj = o /\ snap.pc = "locked"

\* C20: the lock is held only inside a with block (never across a sleep or
\* a wait for a lock, never past a raise), and under fair scheduling every
\* assess_risk call, every get_health_metrics call and every monitor tick
\* that has begun comes to its end: no thread stays inside an operation for
\* ever (thread 1 is the caller).
C20_NoOperationBlocksForever ==
    /\ []LockDiscipline
    /\ []<>(call[1].pc = "idle")
    /\ []<>(snap.pc = "idle")
    /\ \A m \in Monitors : []<>(mon[m].pc \notin {"tick", "locked"})

\* C20 witness: a call whose metric update raised inside the with block has
\* come to its end, and the reader then holds the lock of the same agent
\* while the monitor thread waits for it.
C20_Witness ==
    /\ \E c \in Finished : ResultOf(c).obj = 1 /\ ResultOf(c).exc = "TypeError"
    /\ lock[1] = ReaderThread
    /\ \E m \in Monitors : mon[m].obj = 1 /\ mon[m].pc = "tick"

\* C17: in every reachable state the timestamps of the entries of an
\* agent's history are non-decreasing along the sequence, also when calls
\* interleave between taking the timestamp and appending.
C17_HistoryChronological ==
    \A o \in Objs :
        \A i, j \in 1 .. Len(history[o]) :
            i < j => history[o][i].timestamp <= history[o][j].timestamp

\* h is an initial segment of g: g holds the entries of h, unchanged and at
\* the same positions.
IsPrefix(h, g) == Len(h) <= Len(g) /\ \A i \in 1 .. Len(h) : g[i] = h[i]

\* C18: the history of an agent is append-only: over every step of every
\* operation (assess_risk, start, stop, monitor tick, get_health_metrics,
\* get_assessment_history) the history before the step is a prefix of the
\* history after it; a restart does not clear it.
C18_HistoryAppendOnly ==
    [][\A o \in Objs : IsPrefix(history[o], history'[o])]_vars

\* C18 witness: an agent holding an assessment has been stopped (its first
\* monitor thread has seen the flag cleared and ended) and started again
\* (a later monitor thread runs), and its metrics have been read since.
C18_Witness ==
    /\ Len(history[1]) >= 1
    /\ is_running[1]
    /\ ctl.op = "idle"
    /\ \E m \in Monitors : mon[m].pc = "exited"
    /\ \E m \in Monitors : mon[m].obj = 1 /\ mon[m].pc \notin {"unborn", "exited"}
    /\ snap.valid /\ snap.out.status = "HEALTHY"

\* The band of scores the specification gives a level: score / Scale lies
\* in [0.25, 0.5) for MEDIUM, and so on, with inclusive lower boundaries.
InBand(level, score) ==
    /\ (level = "LOW") <=> (4 * score < Scale)
    /\ (level = "MEDIUM") <=> (Scale <= 4 * score /\ 2 * score < Scale)
    /\ (level = "HIGH") <=> (Scale <= 2 * score /\ 4 * score < 3 * Scale)
    /\ (level = "CRITICAL") <=> (3 * Scale <= 4 * score)

\* The order of the levels.
Rank(level) ==
    CASE level = "LOW" -> 0
      [] level = "MEDIUM" -> 1
      [] level = "HIGH" -> 2
      [] level = "CRITICAL" -> 3

\* C19: the risk level is a total, monotonic step function of the score
\* with inclusive lower boundaries (LOW below 0.25, MEDIUM from 0.25, HIGH
\* from 0.5, CRITICAL from 0.75, also below 0 and above 1): every call of
\* _determine_risk_level returns the level of the band its score lies in, a
\* call on a score no lower than that of the call before returns a level no
\* lower, and every assessment in a history carries the level of the band of
\* its own score.
C19_LevelIsStepFunctionOfScore ==
    /\ [](dl.valid => InBand(dl.level, dl.score))
    /\ [](\A o \in Objs : \A i \in 1 .. Len(history[o]) :
              InBand(history[o][i].risk_level, history[o][i].risk_score))
    /\ [][(dl.valid /\ dl'.valid /\ dl.score <= dl'.score)
              => Rank(dl.level) <= Rank(dl'.level)]_vars

\* C19 witness: _determine_risk_level has been called on the score 0.25
\* itself and returned MEDIUM, and a history holds a HIGH assessment.
C19_Witness ==
    /\ dl.valid /\ 4 * dl.score = Scale /\ dl.level = "MEDIUM"
    /\ \E i \in 1 .. Len(history[1]) : history[1][i].risk_level = "HIGH"

\* The monitor loops of agent o that are alive: spawned and not ended.
LiveMonitors(o) == {m \in Monitors : Alive(m) /\ mon[m].obj = o}

\* C21: at every instant an agent has at most one live monitor loop, after
\* any sequence of start() and stop() calls, also two start() calls with no
\* stop() between them and a start() made soon after a stop().
C21_AtMostOneMonitorLoop ==
    \A o \in Objs : Cardinality(LiveMonitors(o)) <= 1

\* The entries a call's log holds for the metric updates it began: carried
\* out in full, or raised after response_time and error_rate were written.
UpdateTags == {"update_ok", "update_fail", "update_ok_raised", "update_fail_raised"}
UpdatesOf(log) == {i \in 1 .. Len(log) : log[i] \in UpdateTags}

\* C22: every assess_risk call applies the metric update exactly once: with
\* success=true if and only if the call returns an assessment, with
\* success=false if and only if it raises, on every agent assess_risk can be
\* called on, also one that was never started.
C22_OneUpdatePerCall ==
    \A c \in Finished :
        LET log == ResultOf(c).log IN
        /\ Cardinality(UpdatesOf(log)) = 1
        /\ (Count(log, "update_ok") = 1) <=> (ResultOf(c).outcome = "returned")
        /\ (Count(log, "update_fail") = 1) <=> (ResultOf(c).outcome = "raised")

\* The status the specification gives a metrics record: CRITICAL above an
\* error rate of 0.1, else WARNING above a response time of 5.0 seconds or
\* a cpu usage of 90, else HEALTHY.
StatusByRule(status, r) ==
    LET critical == 10 * r.error_rate > Scale
        warning == r.response_time > 5 * Scale \/ r.cpu_usage > 90
    IN /\ (status = "CRITICAL") <=> critical
       /\ (status = "WARNING") <=> (~critical /\ warning)
       /\ (status = "HEALTHY") <=> (~critical /\ ~warning)

\* Monitor thread m completes a tick in this step.
TickCompletes(m) == mon[m].pc = "locked" /\ mon'[m].pc = "sleep"

\* C23: after every completed monitor tick the status the tick wrote is
\* CRITICAL if error_rate > 0.1, otherwise WARNING if response_time > 5.0 or
\* cpu_usage > 90, otherwise HEALTHY, on the values the record holds during
\* the tick: an error_rate of exactly 0.1 is not CRITICAL, and a high
\* error_rate wins over a high response_time.
C23_StatusDerivedInOrder ==
    [][\A m \in Monitors :
           TickCompletes(m) =>
               StatusByRule(hm'[mon[m].obj].status, hm'[mon[m].obj])]_vars

\* C23 witness: a tick has completed on a record whose error_rate is above
\* 0.1 and whose response_time is above 5 seconds, and the status is
\* CRITICAL.
C23_Witness ==
    /\ \E m \in Monitors : mon[m].obj = 1 /\ mon[m].pc = "sleep"
    /\ 10 * hm[1].error_rate > Scale
    /\ hm[1].response_time > 5 * Scale
    /\ hm[1].last_heartbeat = now
    /\ hm[1].status = "CRITICAL"

\* Monitor thread m has caught a fault of its tick and stands in the
\* backoff sleep of the except clause.
Faulted(m) == mon[m].pc = "backoff"

\* The agent of the launched monitor thread m has its running flag cleared.
FlagCleared(m) == Alive(m) /\ ~is_running[mon[m].obj]

\* C24: a fault raised inside a monitor tick does not leave the lock held
\* and does not end the loop: the thread that caught the fault holds no
\* lock, under fair scheduling it begins a further tick unless the running
\* flag is cleared, and a monitor thread ends only at the loop test, on
\* reading the running flag false.
C24_MonitorSurvivesFault ==
    /\ [](\A m \in Monitors :
              Faulted(m) => \A o \in Objs : lock[o] # MonitorThread(m))
    /\ [][\A m \in Monitors :
              (mon[m].pc # "exited" /\ mon'[m].pc = "exited")
                  => (mon[m].pc = "check" /\ FlagCleared(m))]_vars
    /\ \A m \in Monitors :
           Faulted(m) ~> (mon[m].pc = "locked" \/ FlagCleared(m))

\* C24 witness: the monitor thread of the running agent has caught a fault
\* raised after the samples were written, and a caller holds the lock the
\* tick gave back.
C24_Witness ==
    /\ \E m \in Monitors : Faulted(m) /\ mon[m].obj = 1
    /\ is_running[1]
    /\ hm[1].cpu_usage \in CpuSamples
    /\ lock[1] = CallerThread(1)

\* The fields of the metrics record the assessment path writes, and those
\* the monitor writes.
AssessmentFields == {"response_time", "error_rate", "throughput", "active_assessments"}
MonitorFields == {"status", "uptime", "cpu_usage", "memory_usage", "last_heartbeat"}

\* Every record keeps its fields F over the step.
Keeps(F) == \A o \in Objs : \A f \in F : hm'[o][f] = hm[o][f]

\* The step is one of an assess_risk call; the step is one of a monitor
\* thread (the start() that launches a thread writes ctl as well).
CallerStep == call' # call
MonitorStep == mon' # mon /\ ctl' = ctl

\* C25: each writer touches only its own fields of the metrics record: a
\* step of assess_risk leaves status, uptime, cpu_usage, memory_usage and
\* last_heartbeat unchanged, a step of the monitor leaves response_time,
\* error_rate, throughput, active_assessments and the history unchanged,
\* and neither changes the running flag or the start instant.
C25_WritersKeepToTheirFields ==
    [][/\ CallerStep => Keeps(MonitorFields)
       /\ MonitorStep => (Keeps(AssessmentFields) /\ history' = history)
       /\ (CallerStep \/ MonitorStep)
              => (is_running' = is_running /\ start_time' = start_time)]_vars

\* C25 witness: both writers have written the record of the started agent:
\* a slow call has raised its response time and a tick has recorded the
\* uptime, the gauges and the heartbeat.
C25_Witness ==
    /\ hm[1].response_time > 0
    /\ hm[1].error_rate > 0
    /\ hm[1].uptime > 0
    /\ hm[1].cpu_usage \in CpuSamples
    /\ hm[1].last_heartbeat > 0
    /\ hm[1].status = "HEALTHY"
    /\ Quiescent

\* The error rate the specification gives after the finished calls rs, in
\* their order: 0 at the start, error_rate*0.95 after a call that returned,
\* error_rate*0.9 + 0.1 after a call that raised.
RECURSIVE ErrorRateAfter(_)
ErrorRateAfter(rs) ==
    IF rs = <<>> THEN 0
    ELSE NextErrorRate(ErrorRateAfter(SubSeq(rs, 1, Len(rs) - 1)),
                       rs[Len(rs)].outcome = "returned")

\* C26: error_rate starts at 0 and stays within [0, 1]; after any sequence
\* of calls made one after the other it is the value got from 0 by taking
\* error_rate*0.9 + 0.1 for every call that raised and error_rate*0.95 for
\* every call that returned, in the order of the calls (within [0, 1] the
\* first never lowers the rate and the second never raises it).
C26_ErrorRateFollowsOutcomes ==
    /\ \A o \in Objs : 0 <= hm[o].error_rate /\ hm[o].error_rate <= Scale
    /\ Quiescent => hm[1].error_rate = ErrorRateAfter(results[1])

\* C27: the history of an agent holds an entry of an assess_risk call if
\* and only if the call returned an assessment: a call that raised left no
\* entry, and once no call is in progress the length of the history is the
\* number of calls that returned, whether the agent was started or not.
C27_EntryIffReturned ==
    /\ \A c \in Finished :
           (EntriesOf(ResultOf(c).obj, c) # {}) <=> (ResultOf(c).outcome = "returned")
    /\ Quiescent =>
           \A o \in RegisteredObjs :
               Len(history[o]) =
                   Cardinality({c \in Finished : /\ ResultOf(c).obj = o
                                                 /\ ResultOf(c).outcome = "returned"})

\* The agents created through add_agent so far.
Created == 1 .. nobj

\* stop_all_agents returns in this step.
StopAllReturns == ctl.op = "stop_all" /\ ctl'.op = "idle"

\* C28: when stop_all_agents() returns, no agent ever created through
\* add_agent on the system has its running flag set (so that every monitor
\* loop ends at its next loop test), after any sequence of add_agent,
\* start_all_agents and stop_all_agents calls, re-registration of an id
\* included.
C28_StopAllStopsEveryAgent ==
    [][StopAllReturns => \A o \in Created : ~is_running'[o]]_vars

=============================================================================
